---------------------------- MODULE Spec2Model ----------------------------
(***************************************************************************)
(* A model of start_new_investigation.py: the leveled logger MSG, the      *)
(* template discovery get_list_of_notebooks, the directory naming and      *)
(* creation routine create_directory, the orchestrator main and the        *)
(* script entry point.                                                      *)
(*                                                                         *)
(* A Python str is a sequence of characters; a character is a string of    *)
(* one symbol ("U+0663" stands for the single non-ASCII decimal digit      *)
(* ARABIC-INDIC DIGIT THREE).  A path below a root directory is the        *)
(* sequence of its component names.                                        *)
(***************************************************************************)
EXTENDS Integers, Sequences, FiniteSets, TLC

VARIABLES
    pc,                 \* the position of the script / of the driven routine
    args,               \* parsed command line: [flags, dryrun]
    DEFAULT_VERBOSITY,  \* config flag (line 15)
    DRYRUN,             \* module global (line 14, set at line 398)
    CONFIGURED_LEVEL,   \* MSG.CONFIGURED_LEVEL
    log,                \* every MSG.log / print call made so far, in order
    stdout,             \* the lines printed so far
    raised,             \* the exception the last driven call ended with
    pb_exists,          \* PLAYBOOKS_DIR exists
    pb_dirs,            \* directories below PLAYBOOKS_DIR (paths)
    pb_files,           \* regular files below PLAYBOOKS_DIR (paths)
    playbooks,          \* main's local: the discovered list
    playbook_index,     \* main's local
    raw_input,          \* the line input() returned last
    case_id,            \* main's local / create_directory's argument
    notebook_folder,    \* main's local / create_directory's argument
    new_dir_name,       \* create_directory's local
    new_dir,            \* what create_directory returned to its caller
    inv_exists,         \* INVESTIGATIONS_DIR exists
    inv_dirs,           \* names of the directories in INVESTIGATIONS_DIR
    inv_files,          \* <<directory name, file name, source path>> in them
    fs_ops,             \* the filesystem changes this run has made, in order
    retries,            \* rejected lines so far (bounded by MaxRetries)
    r,                  \* main's return value
    exit_code           \* the process exit code

vars == <<pc, args, DEFAULT_VERBOSITY, DRYRUN, CONFIGURED_LEVEL, log,
          stdout, raised,
          pb_exists, pb_dirs, pb_files, playbooks, playbook_index, raw_input,
          case_id, notebook_folder, new_dir_name, new_dir, inv_exists,
          inv_dirs, inv_files, fs_ops, retries, r, exit_code>>

(***************************************************************************)
(* Bounds of the model.                                                    *)
(***************************************************************************)
MaxLineLen == 3      \* typed lines are enumerated up to this length
MaxRetries == 2      \* rejected lines per prompt loop
MaxNodes == 4        \* entries of a generated playbooks tree
MaxDepth == 3        \* nesting depth of a generated playbooks tree
MaxOut == 2          \* logger calls per logger behaviour
MaxArgLen == 2       \* enumerated create_directory arguments
MaxFlags == 1        \* verbosity flags on one command line

(***************************************************************************)
(* Python values.                                                          *)
(***************************************************************************)
None == <<"<None>">>
Truthy(x) == x # None /\ x # <<>>

\* error codes; main returns None on success, and its caller only tests
\* the truth of the result, so None is recorded as the falsy 0
RETURN_ERROR == 1
NoneReturned == 0
\* exit_code while the process has not exited
Running == -1
\* CONFIGURED_LEVEL = NoLevel (line 46)
NoLevel == -1

(***************************************************************************)
(* Characters and the regular expressions of the script.                   *)
(***************************************************************************)
LowerCase == {"a","b","c","d","e","f","g","h","i","j","k","l","m",
              "n","o","p","q","r","s","t","u","v","w","x","y","z"}
UpperCase == {"A","B","C","D","E","F","G","H","I","J","K","L","M",
              "N","O","P","Q","R","S","T","U","V","W","X","Y","Z"}
AsciiDigits == {"0","1","2","3","4","5","6","7","8","9"}
\* a str pattern's \d matches every Unicode decimal digit
UnicodeDigits == {"U+0663"}
DecimalDigits == AsciiDigits \cup UnicodeDigits
\* what str.strip() removes
Whitespace == {" ", "\t", "\n", "\r", "\f"}

\* the character class [a-zA-Z0-9 \.\-_#\(\)]
AllowedChars == LowerCase \cup UpperCase \cup AsciiDigits
                    \cup {" ", ".", "-", "_", "#", "(", ")"}

CaseIdMaxLen == 20
DirNameMaxLen == 75

\* re.match(r"^...$", s): $ matches at the end of s and also just before a
\* newline that ends s; these are the prefixes of s the pattern may span
UpToDollar(s) ==
    {s} \cup (IF Len(s) > 0 /\ s[Len(s)] = "\n"
              THEN {SubSeq(s, 1, Len(s) - 1)}
              ELSE {})

FullNumeric(s) ==
    LET body == IF Len(s) > 0 /\ s[1] = "#" THEN Tail(s) ELSE s
    IN  /\ Len(body) >= 1
        /\ \A i \in 1..Len(body) : body[i] \in DecimalDigits

FullAllowed20(s) ==
    /\ Len(s) \in 1..CaseIdMaxLen
    /\ \A i \in 1..Len(s) : s[i] \in AllowedChars

FullAllowed75(s) ==
    /\ Len(s) \in 1..DirNameMaxLen
    /\ \A i \in 1..Len(s) : s[i] \in AllowedChars

\* r"^#?\d+$"
MatchNumeric(s) == \E t \in UpToDollar(s) : FullNumeric(t)
\* r"^[a-zA-Z0-9 \.\-_#\(\)]{1,20}$"
MatchCaseId(s) == \E t \in UpToDollar(s) : FullAllowed20(t)
\* r"^[a-zA-Z0-9 \.\-_#\(\)]{1,75}$"
MatchDirName(s) == \E t \in UpToDollar(s) : FullAllowed75(t)

RECURSIVE lstrip(_)
lstrip(s) == IF s # <<>> /\ Head(s) \in Whitespace THEN lstrip(Tail(s)) ELSE s

RECURSIVE rstrip(_)
rstrip(s) ==
    IF s # <<>> /\ s[Len(s)] \in Whitespace
    THEN rstrip(SubSeq(s, 1, Len(s) - 1))
    ELSE s

strip(s) == rstrip(lstrip(s))

RECURSIVE Rep(_, _)
Rep(c, n) == IF n = 0 THEN <<>> ELSE <<c>> \o Rep(c, n - 1)

StringsUpTo(A, n) == UNION {[1..k -> A] : k \in 0..n}

(***************************************************************************)
(* class MSG.  A call of MSG.log is recorded in log as                     *)
(* <<level, source, key>>; a bare print() is recorded with level PRINT.    *)
(* stdout holds the lines that were printed, <<level name, source, key>>.  *)
(***************************************************************************)
SILENT == 1
CRITICAL == 2
ERROR == 3
WARNING == 4
INFO == 5
VERBOSE == 6
DEBUG == 7
PRINT == 0

Levels == SILENT..DEBUG
LevelNames == {"SILENT", "CRITICAL", "ERROR", "WARNING", "INFO", "VERBOSE",
               "DEBUG"}

name_to_level_lookup(name) ==
    CASE name = "SILENT" -> SILENT
      [] name = "CRITICAL" -> CRITICAL
      [] name = "ERROR" -> ERROR
      [] name = "WARNING" -> WARNING
      [] name = "INFO" -> INFO
      [] name = "DEBUG" -> DEBUG
      [] name = "VERBOSE" -> VERBOSE

getName(level) ==
    CASE level = SILENT -> "SILENT"
      [] level = CRITICAL -> "CRITICAL"
      [] level = ERROR -> "ERROR"
      [] level = WARNING -> "WARNING"
      [] level = INFO -> "INFO"
      [] level = DEBUG -> "DEBUG"
      [] level = VERBOSE -> "VERBOSE"
      [] OTHER -> "None"

Call(level, source, key) == <<level, source, key>>
Line(call) == <<IF call[1] = PRINT THEN "" ELSE getName(call[1]),
                call[2], call[3]>>

\* MSG.log, line 135, with the level configured: is the line printed
Passes(call, configured) == call[1] = PRINT \/ call[1] <= configured

RECURSIVE PrintedOf(_, _)
PrintedOf(calls, configured) ==
    IF calls = <<>> THEN <<>>
    ELSE (IF Passes(Head(calls), configured)
          THEN <<Line(Head(calls))>> ELSE <<>>)
         \o PrintedOf(Tail(calls), configured)

\* the calls are made in order with the level `configured` in force
EmitAt(calls, configured) ==
    /\ log' = log \o calls
    /\ stdout' = stdout \o PrintedOf(calls, configured)

Emit(calls) == EmitAt(calls, CONFIGURED_LEVEL)

Logged(key) == \E i \in 1..Len(log) : log[i][3] = key
WasPrinted(key) == \E i \in 1..Len(stdout) : stdout[i][3] = key

\* the variables of a run of main that the logger does not touch
RunVars == <<args, DEFAULT_VERBOSITY, DRYRUN, pb_exists, pb_dirs, pb_files,
             playbooks, playbook_index, raw_input, case_id, notebook_folder,
             new_dir_name, new_dir, inv_exists, inv_dirs, inv_files, fs_ops,
             retries, r, exit_code>>

\* MSG.setLevelByName(name), name a str
MSGsetLevelByName(name) ==
    /\ pc = "msg"
    /\ IF name \in LevelNames
       THEN /\ CONFIGURED_LEVEL' = name_to_level_lookup(name)
            /\ UNCHANGED <<log, stdout>>
       ELSE /\ Len(log) < MaxOut
            /\ EmitAt(<<Call(PRINT, "MSG.setLevelByName",
                              "[ERROR] Invalid verbosity level name")>>,
                      PRINT)
            /\ UNCHANGED CONFIGURED_LEVEL
    /\ raised' = ""
    /\ UNCHANGED <<pc, RunVars>>

\* MSG.setLevel(level), level an int: line 121 reads cls._name_lookup,
\* an attribute the class does not have
MSGsetLevel(level) ==
    /\ pc = "msg"
    /\ raised' = "AttributeError"
    /\ UNCHANGED <<pc, CONFIGURED_LEVEL, log, stdout, RunVars>>

\* MSG.log(verbosity_level, function_name, message), verbosity_level an
\* int: line 135 compares it with CONFIGURED_LEVEL, which is None until a
\* level is set
MSGlog(verbosity_level) ==
    /\ pc = "msg"
    /\ Len(log) < MaxOut
    /\ IF CONFIGURED_LEVEL = NoLevel
       THEN /\ raised' = "TypeError"
            /\ log' = Append(log, Call(verbosity_level, "caller", "message"))
            /\ UNCHANGED stdout
       ELSE /\ raised' = ""
            /\ Emit(<<Call(verbosity_level, "caller", "message")>>)
    /\ UNCHANGED <<pc, CONFIGURED_LEVEL, RunVars>>

(***************************************************************************)
(* get_list_of_notebooks, lines 143-183.  The tree below the playbooks     *)
(* root is given by the paths of its directories (the root is <<>>) and    *)
(* of its regular files.                                                    *)
(***************************************************************************)
PLAYBOOK_IGNORE_DIRS ==
    { <<".", "i", "p", "y", "n", "b", "_", "c", "h", "e", "c", "k", "p", "o", "i", "n", "t", "s">>,
      <<"_", "_", "p", "y", "c", "a", "c", "h", "e", "_", "_">>,
      <<".", "g", "i", "t">>,
      <<".", "v", "e", "n", "v">>,
      <<"v", "e", "n", "v">>,
      <<"b", "u", "i", "l", "d">>,
      <<"d", "i", "s", "t">>,
      <<".", "c", "a", "c", "h", "e">>,
      <<"c", "a", "c", "h", "e">>,
      <<".", "v", "s", "c", "o", "d", "e">>,
      <<".", "i", "d", "e", "a">>,
      <<".", "p", "y", "t", "e", "s", "t", "_", "c", "a", "c", "h", "e">>,
      <<"n", "o", "d", "e", "_", "m", "o", "d", "u", "l", "e", "s">>,
      <<".", "e", "n", "v">>,
      <<"e", "n", "v">>,
      <<"l", "o", "g", "s">>,
      <<"t", "m", "p">>,
      <<"t", "e", "m", "p">> }

PLAYBOOKS_DIR_name == <<"P", "l", "a", "y", "b", "o", "o", "k", "s">>
ipynb == <<".", "i", "p", "y", "n", "b">>

\* the names the entries of a playbooks tree are drawn from
N_a == <<"a">>
N_git == <<".", "g", "i", "t">>
N_tmp == <<"t", "m", "p">>
N_x_ipynb == <<"x", ".", "i", "p", "y", "n", "b">>
N_dot_ipynb == <<".", "i", "p", "y", "n", "b">>
N_y_txt == <<"y", ".", "t", "x", "t">>
N_bang == <<"b", "!">>
EntryNames == {N_a, N_git, N_tmp, N_x_ipynb, N_dot_ipynb, N_y_txt}

\* the order in which iterdir() lists the entries of a directory is not
\* specified; two orders are modelled
IterOrders ==
    { <<N_a, N_git, N_tmp, N_x_ipynb, N_dot_ipynb, N_y_txt, N_bang>>,
      <<N_bang, N_y_txt, N_dot_ipynb, N_x_ipynb, N_tmp, N_git, N_a>> }

\* str.rfind('.'), 1-based, 0 when there is no dot
RECURSIVE rfind_dot(_, _)
rfind_dot(name, i) ==
    IF i = 0 THEN 0
    ELSE IF name[i] = "." THEN i
    ELSE rfind_dot(name, i - 1)

\* PurePath.suffix
suffix(name) ==
    LET i == rfind_dot(name, Len(name))
    IN  IF 1 < i /\ i < Len(name) THEN SubSeq(name, i, Len(name)) ELSE <<>>

\* a plausible slip: the walk of rglob('*.ipynb'), which skips no directory
RECURSIVE recursive_search_rglob(_, _, _, _, _)
recursive_search_rglob(dirs, files, current_dir, order, i) ==
    IF i > Len(order) THEN <<>>
    ELSE LET item == Append(current_dir, order[i])
         IN  (IF item \in dirs
              THEN recursive_search_rglob(dirs, files, item, order, 1)
              ELSE IF item \in files /\ suffix(order[i]) = ipynb
              THEN <<item>>
              ELSE <<>>)
             \o recursive_search_rglob(dirs, files, current_dir, order, i + 1)

\* recursive_search(current_dir), the loop over iterdir() from its i-th item
RECURSIVE recursive_search(_, _, _, _, _)
recursive_search(dirs, files, current_dir, order, i) ==
    IF i > Len(order) THEN <<>>
    ELSE LET item == Append(current_dir, order[i])
         IN  (IF item \in dirs
              THEN IF order[i] \notin PLAYBOOK_IGNORE_DIRS
                   THEN recursive_search(dirs, files, item, order, 1)
                   ELSE <<>>
              ELSE IF item \in files /\ suffix(order[i]) = ipynb
              THEN <<item>>
              ELSE <<>>)
             \o recursive_search(dirs, files, current_dir, order, i + 1)

\* the result of get_list_of_notebooks; it returns None where it would
\* return an empty list, and None is recorded as <<>>
get_list_of_notebooks(exists, dirs, files, order) ==
    IF ~exists THEN <<>>
    ELSE recursive_search(dirs, files, <<>>, order, 1)

get_list_of_notebooks_calls(exists, found) ==
    <<Call(VERBOSE, "get_list_of_notebooks", "Fetching all Jupyter Notebook files")>>
    \o (IF ~exists
        THEN <<Call(ERROR, "get_list_of_notebooks", "does not point to a valid directory")>>
        ELSE IF found = <<>>
        THEN <<Call(WARNING, "get_list_of_notebooks", "No Jupyter notebooks found")>>
        ELSE <<>>)

(***************************************************************************)
(* create_directory, lines 186-239.  The existence check of line 221 and   *)
(* the mkdir of line 231 are two steps: another process may create the     *)
(* same directory between them.                                            *)
(***************************************************************************)
\* values of datetime.now().strftime('%Y-%m-%dT%H.%M')
Timestamps == { <<"2", "0", "2", "4", "-", "0", "1", "-", "0", "2", "T", "0", "3", ".", "0", "4">>,
                <<"2", "0", "2", "4", "-", "0", "1", "-", "0", "2", "T", "0", "3", ".", "0", "5">> }

\* a plausible slip: the label is dropped for the fallback
ComposeNameFallbackOnly(current_time, case, folder_name) ==
    current_time
    \o (IF Truthy(case) THEN <<" ">> \o case ELSE <<>>)
    \o <<" ", "-", " ", "N", "e", "w", " ", "I", "n", "v", "e", "s", "t", "i", "g", "a", "t", "i", "o", "n">>

\* lines 205-209
ComposeName(current_time, case, folder_name) ==
    current_time
    \o (IF Truthy(case) THEN <<" ">> \o case ELSE <<>>)
    \o (IF Truthy(folder_name)
        THEN <<" ", "-", " ">> \o folder_name
        ELSE <<" ", "-", " ", "N", "e", "w", " ", "I", "n", "v", "e", "s", "t", "i", "g", "a", "t", "i", "o", "n">>)

\* line 213: the name passes the allow-list pattern
NameAccepted(name) == MatchDirName(name)

MkdirOp(name) == [op |-> "mkdir", dir |-> name, file |-> <<>>, src |-> <<>>]

CreateVars == <<args, DEFAULT_VERBOSITY, DRYRUN, CONFIGURED_LEVEL,
                pb_exists, pb_dirs, pb_files, playbooks, playbook_index,
                raw_input, case_id, notebook_folder, inv_exists, inv_files,
                retries, r, exit_code>>

\* a plausible slip: the dry-run test is missing
CreateCheckNoDryRun(current_time) ==
    LET name == ComposeName(current_time, case_id, notebook_folder)
        named == Call(INFO, "create_directory", "New directory name")
    IN  /\ pc = "create"
        /\ raised' = ""
        /\ IF ~inv_exists
           THEN /\ Emit(<<Call(ERROR, "create_directory",
                               "Investigations directory does not exist")>>)
                /\ new_dir' = None
                /\ pc' = "returned"
                /\ UNCHANGED new_dir_name
           ELSE /\ new_dir_name' = name
                /\ IF ~NameAccepted(name)
                   THEN /\ Emit(<<named, Call(ERROR, "create_directory",
                                               "Invalid directory name")>>)
                        /\ new_dir' = None
                        /\ pc' = "returned"
                   ELSE IF name \in inv_dirs
                   THEN /\ Emit(<<named, Call(ERROR, "create_directory",
                                               "Directory already exists")>>)
                        /\ new_dir' = None
                        /\ pc' = "returned"
                   ELSE /\ Emit(<<named>>)
                        /\ pc' = "mkdir"
                        /\ UNCHANGED new_dir
        /\ UNCHANGED <<CreateVars, inv_dirs, fs_ops>>

\* lines 199-228: up to and including the dry-run test
CreateCheck(current_time) ==
    LET name == ComposeName(current_time, case_id, notebook_folder)
        named == Call(INFO, "create_directory", "New directory name")
    IN  /\ pc = "create"
        /\ raised' = ""
        /\ IF ~inv_exists
           THEN /\ Emit(<<Call(ERROR, "create_directory",
                               "Investigations directory does not exist")>>)
                /\ new_dir' = None
                /\ pc' = "returned"
                /\ UNCHANGED new_dir_name
           ELSE /\ new_dir_name' = name
                /\ IF ~NameAccepted(name)
                   THEN /\ Emit(<<named, Call(ERROR, "create_directory",
                                               "Invalid directory name")>>)
                        /\ new_dir' = None
                        /\ pc' = "returned"
                   ELSE IF name \in inv_dirs
                   THEN /\ Emit(<<named, Call(ERROR, "create_directory",
                                               "Directory already exists")>>)
                        /\ new_dir' = None
                        /\ pc' = "returned"
                   ELSE IF DRYRUN
                   THEN /\ Emit(<<named, Call(DEBUG, "create_directory",
                                               "DRYRUN: Would have created directory")>>)
                        /\ new_dir' = None
                        /\ pc' = "returned"
                   ELSE /\ Emit(<<named>>)
                        /\ pc' = "mkdir"
                        /\ UNCHANGED new_dir
        /\ UNCHANGED <<CreateVars, inv_dirs, fs_ops>>

\* a plausible slip: mkdir(parents=True, exist_ok=True)
MkdirExistOk(os_ok) ==
    /\ pc = "mkdir"
    /\ pc' = "returned"
    /\ IF ~os_ok
       THEN /\ raised' = "OSError"
            /\ UNCHANGED <<new_dir, inv_dirs, fs_ops, log, stdout>>
       ELSE /\ raised' = ""
            /\ new_dir' = new_dir_name
            /\ inv_dirs' = inv_dirs \cup {new_dir_name}
            /\ fs_ops' = IF new_dir_name \in inv_dirs THEN fs_ops
                         ELSE Append(fs_ops, MkdirOp(new_dir_name))
            /\ Emit(<<Call(INFO, "create_directory", "Created directory")>>)
    /\ UNCHANGED <<CreateVars, new_dir_name>>

\* lines 230-238: mkdir(parents=True, exist_ok=False) and the check after
\* it; os_ok is false when the operating system refuses the mkdir
Mkdir(os_ok) ==
    /\ pc = "mkdir"
    /\ pc' = "returned"
    /\ IF new_dir_name \in inv_dirs
       THEN /\ raised' = "FileExistsError"
            /\ UNCHANGED <<new_dir, inv_dirs, fs_ops, log, stdout>>
       ELSE IF ~os_ok
       THEN /\ raised' = "OSError"
            /\ UNCHANGED <<new_dir, inv_dirs, fs_ops, log, stdout>>
       ELSE /\ raised' = ""
            /\ new_dir' = new_dir_name
            /\ inv_dirs' = inv_dirs \cup {new_dir_name}
            /\ fs_ops' = Append(fs_ops, MkdirOp(new_dir_name))
            /\ Emit(<<Call(INFO, "create_directory", "Created directory")>>)
    /\ UNCHANGED <<CreateVars, new_dir_name>>

\* another process creates a directory of the investigations root: one the
\* coming call may name (before the call), or the very directory
\* create_directory has just found absent (between its check and its mkdir)
OtherProcessMkdir(name) ==
    /\ inv_exists
    /\ \/ pc = "create" /\ inv_dirs = {}
          /\ \E t \in Timestamps :
                name = ComposeName(t, case_id, notebook_folder)
       \/ pc = "mkdir" /\ name = new_dir_name /\ name \notin inv_dirs
    /\ inv_dirs' = inv_dirs \cup {name}
    /\ UNCHANGED <<pc, CreateVars, log, stdout, raised, new_dir_name, new_dir,
                   fs_ops>>

OtherProcess ==
    \E t \in Timestamps :
        OtherProcessMkdir(ComposeName(t, case_id, notebook_folder))

(***************************************************************************)
(* The script entry point, lines 355-401.                                  *)
(***************************************************************************)
\* the verbosity flags in the order argparse holds them (lines 359-365)
FlagOrder == <<"silent", "critical", "error", "warning", "info", "verbose",
               "debug">>

\* str.upper() of a flag name
upper(level_flag) ==
    CASE level_flag = "silent" -> "SILENT"
      [] level_flag = "critical" -> "CRITICAL"
      [] level_flag = "error" -> "ERROR"
      [] level_flag = "warning" -> "WARNING"
      [] level_flag = "info" -> "INFO"
      [] level_flag = "verbose" -> "VERBOSE"
      [] level_flag = "debug" -> "DEBUG"

\* lines 374-378: the first flag that is set wins, else the default
RECURSIVE verbosity_from(_, _, _)
verbosity_from(flags, default, i) ==
    IF i > Len(FlagOrder) THEN default
    ELSE IF FlagOrder[i] \in flags THEN upper(FlagOrder[i])
    ELSE verbosity_from(flags, default, i + 1)

MainVars == <<pb_exists, pb_dirs, pb_files, playbooks, playbook_index,
              raw_input, case_id, notebook_folder, new_dir_name, new_dir,
              inv_exists, inv_dirs, inv_files, fs_ops, retries, r>>

\* lines 373-401
Startup ==
    LET verbosity == verbosity_from(args.flags, DEFAULT_VERBOSITY, 1)
        mode == IF args.dryrun
                THEN <<Call(VERBOSE, "__main__", "Enabling DRYRUN mode"),
                       Call(VERBOSE, "__main__", "Running in dryrun mode")>>
                ELSE <<Call(VERBOSE, "__main__", "Running with verbosity level")>>
    IN  /\ pc = "start"
        /\ raised' = ""
        /\ IF verbosity # "" /\ verbosity \notin LevelNames
           THEN /\ EmitAt(<<Call(PRINT, "MSG.setLevelByName",
                                  "[ERROR] Invalid verbosity level name"),
                            Call(PRINT, "__main__",
                                 "[ERROR] Invalid logging verbosity level in configuration")>>,
                          PRINT)
                /\ exit_code' = 1
                /\ pc' = "exited"
                /\ UNCHANGED <<CONFIGURED_LEVEL, DRYRUN>>
           ELSE /\ CONFIGURED_LEVEL' =
                     IF verbosity # "" THEN name_to_level_lookup(verbosity)
                                       ELSE name_to_level_lookup("WARNING")
                /\ EmitAt(<<Call(VERBOSE, "__main__",
                                 IF verbosity # ""
                                 THEN "Set verbosity level"
                                 ELSE "No verbosity level specified")>>
                          \o mode, CONFIGURED_LEVEL')
                /\ DRYRUN' = (DRYRUN \/ args.dryrun)
                /\ pc' = "main"
                /\ UNCHANGED exit_code
        /\ UNCHANGED <<args, DEFAULT_VERBOSITY, MainVars>>

(***************************************************************************)
(* main, lines 242-296: preflight, discovery, selection.                   *)
(***************************************************************************)
StepVars == <<args, DEFAULT_VERBOSITY, DRYRUN, CONFIGURED_LEVEL, raised,
              pb_exists, pb_dirs, pb_files, inv_exists, inv_dirs, inv_files,
              fs_ops, exit_code>>

\* any(PLAYBOOKS_DIR.iterdir())
HasEntries == \E p \in pb_dirs \cup pb_files : Len(p) = 1

\* a plausible slip: the failed preflight is reported but main goes on
PreflightContinues ==
    /\ pc = "main"
    /\ pc' = "discover"
    /\ IF ~pb_exists \/ ~HasEntries
       THEN /\ Emit(<<Call(ERROR, "main",
                           "Playbooks directory does not exist or is empty")>>)
            /\ r' = RETURN_ERROR
       ELSE /\ Emit(<<Call(VERBOSE, "main", "Playbooks directory exists")>>)
            /\ UNCHANGED r
    /\ UNCHANGED <<StepVars, playbooks, playbook_index, raw_input, case_id,
                   notebook_folder, new_dir_name, new_dir, retries>>

\* lines 249-254
Preflight ==
    /\ pc = "main"
    /\ IF ~pb_exists \/ ~HasEntries
       THEN /\ Emit(<<Call(ERROR, "main",
                           "Playbooks directory does not exist or is empty")>>)
            /\ r' = RETURN_ERROR
            /\ pc' = "ret"
       ELSE /\ Emit(<<Call(VERBOSE, "main", "Playbooks directory exists")>>)
            /\ pc' = "discover"
            /\ UNCHANGED r
    /\ UNCHANGED <<StepVars, playbooks, playbook_index, raw_input, case_id,
                   notebook_folder, new_dir_name, new_dir, retries>>

RECURSIVE ListingCalls(_)
ListingCalls(n) ==
    IF n = 0 THEN <<>>
    ELSE Append(ListingCalls(n - 1), Call(PRINT, "SELECT", "<n>. <path>"))

\* lines 256-266
Discover(order) ==
    LET found == get_list_of_notebooks(pb_exists, pb_dirs, pb_files, order)
    IN  /\ pc = "discover"
        /\ playbooks' = found
        /\ IF found = <<>>
           THEN /\ Emit(get_list_of_notebooks_calls(pb_exists, found)
                        \o <<Call(ERROR, "main",
                                  "No Jupyter notebooks found in the Playbooks directory")>>)
                /\ r' = RETURN_ERROR
                /\ pc' = "ret"
           ELSE /\ Emit(get_list_of_notebooks_calls(pb_exists, found)
                        \o <<Call(VERBOSE, "main", "Found Jupyter notebooks"),
                             Call(PRINT, "SELECT", "Available Jupyter notebooks:")>>
                        \o ListingCalls(Len(found)))
                /\ pc' = "select"
                /\ UNCHANGED r
        /\ UNCHANGED <<StepVars, playbook_index, raw_input, case_id,
                       notebook_folder, new_dir_name, new_dir, retries>>

\* int() of a string of decimal digits
DigitValue(c) ==
    CASE c = "0" -> 0 [] c = "1" -> 1 [] c = "2" -> 2 [] c = "3" -> 3
      [] c = "4" -> 4 [] c = "5" -> 5 [] c = "6" -> 6 [] c = "7" -> 7
      [] c = "8" -> 8 [] c = "9" -> 9 [] c = "U+0663" -> 3

RECURSIVE int(_)
int(s) ==
    IF s = <<>> THEN 0
    ELSE 10 * int(SubSeq(s, 1, Len(s) - 1)) + DigitValue(s[Len(s)])

\* r"^\s*\d+\s*$"
MatchSelection(s) ==
    LET t == strip(s)
    IN  Len(t) >= 1 /\ \A i \in 1..Len(t) : t[i] \in DecimalDigits

\* a plausible slip: the typed number is used as a 0-based index
SelectionPassZeroBased(line, index, list) ==
    IF line # <<>> /\ MatchSelection(line)
    THEN LET n == int(strip(line))
         IN  [done |-> n >= 0 /\ n < Len(list), playbook_index |-> n]
    ELSE [done |-> FALSE, playbook_index |-> index]

\* lines 270-281: one pass of the selection loop on one line
SelectionPass(line, index, list) ==
    IF line # <<>> /\ MatchSelection(line)
    THEN LET n == int(strip(line)) - 1
         IN  [done |-> n >= 0 /\ n < Len(list), playbook_index |-> n]
    ELSE [done |-> FALSE, playbook_index |-> index]

\* selected_notebook.parent.name
ParentName(path) ==
    IF Len(path) = 1 THEN PLAYBOOKS_DIR_name ELSE path[Len(path) - 1]

\* lines 268-299
SelectStep(line) ==
    LET pass == SelectionPass(line, playbook_index, playbooks)
    IN  /\ pc = "select"
        /\ retries < MaxRetries \/ pass.done
        /\ raw_input' = line
        /\ playbook_index' = pass.playbook_index
        /\ IF pass.done
           THEN /\ notebook_folder' =
                     ParentName(playbooks[pass.playbook_index + 1])
                /\ Emit(<<Call(INFO, "main", "Selected notebook"),
                          Call(PRINT, "ID ref", "Enter an Argus or Remedy case ID reference."),
                          Call(PRINT, "ID ref", "Press Enter to leave the reference empty for now.")>>)
                /\ retries' = 0
                /\ pc' = "caseref"
           ELSE /\ Emit(<<Call(PRINT, "SELECT", "Invalid input.")>>)
                /\ retries' = retries + 1
                /\ pc' = "select"
                /\ UNCHANGED notebook_folder
        /\ UNCHANGED <<StepVars, playbooks, case_id, new_dir_name, new_dir, r>>

(***************************************************************************)
(* main, lines 298-323: one pass of the case-reference loop on one line.   *)
(***************************************************************************)
\* a plausible slip: the numeric branch is lost and every token is wrapped
CaseIdPassAlwaysWrapped(line) ==
    LET s == strip(line)
    IN  IF s = <<>>
        THEN [done |-> TRUE, case_id |-> None]
        ELSE IF MatchCaseId(s)
        THEN [done |-> TRUE, case_id |-> <<"#", "(">> \o s \o <<")">>]
        ELSE [done |-> FALSE, case_id |-> s]

CaseIdPass(line) ==
    LET s == strip(line)
    IN  IF s = <<>>
        THEN [done |-> TRUE, case_id |-> None]
        ELSE IF MatchNumeric(s)
        THEN [done |-> TRUE,
              case_id |-> IF s[1] = "#" THEN s ELSE <<"#">> \o s]
        ELSE IF MatchCaseId(s)
        THEN [done |-> TRUE, case_id |-> <<"#", "(">> \o s \o <<")">>]
        ELSE [done |-> FALSE, case_id |-> s]

CaseRejectedCalls ==
    << Call(WARNING, "main", "Invalid input. Please enter a valid case ID"),
       Call(INFO, "main", "ID ref explanation> 20 characters"),
       Call(INFO, "main", "ID ref explanation> special characters") >>

CaseRefStep(line) ==
    /\ pc = "caseref"
    /\ retries < MaxRetries \/ CaseIdPass(line).done
    /\ raw_input' = line
    /\ case_id' = CaseIdPass(line).case_id
    /\ IF CaseIdPass(line).done
       THEN /\ pc' = "create"
            /\ retries' = 0
            /\ Emit(<<Call(INFO, "main", "Case ID reference")>>)
       ELSE /\ pc' = "caseref"
            /\ retries' = retries + 1
            /\ Emit(CaseRejectedCalls)
    /\ UNCHANGED <<args, DEFAULT_VERBOSITY, DRYRUN, CONFIGURED_LEVEL, raised,
                   pb_exists, pb_dirs, pb_files, playbooks, playbook_index,
                   notebook_folder, new_dir_name, new_dir, inv_exists,
                   inv_dirs, inv_files, fs_ops, r, exit_code>>

(***************************************************************************)
(* main, lines 325-352, and the exit of the script, lines 403-417.         *)
(***************************************************************************)
inv_prefix == <<"i", "n", "v", "_">>

CopyOp(dir, file, src) == [op |-> "copy", dir |-> dir, file |-> file, src |-> src]

\* lines 325-352, from the return of create_directory on: the except
\* clause of line 328, the check of line 333, the copy and its check;
\* copy_ok is false when shutil.copy raises
CopyStep(copy_ok) ==
    LET selected_notebook == playbooks[playbook_index + 1]
        new_filename == inv_prefix \o selected_notebook[Len(selected_notebook)]
    IN  /\ pc = "returned"
        /\ raised' = ""
        /\ pc' = "ret"
        /\ IF raised # ""
           THEN /\ Emit(<<Call(ERROR, "main", "Failed to create directory: <e>")>>)
                /\ r' = RETURN_ERROR
                /\ UNCHANGED <<inv_files, fs_ops>>
           ELSE IF new_dir = None \/ new_dir \notin inv_dirs
           THEN /\ Emit(<<Call(ERROR, "main",
                               "Failed to create directory for the new investigation")>>)
                /\ r' = RETURN_ERROR
                /\ UNCHANGED <<inv_files, fs_ops>>
           ELSE IF ~copy_ok
           THEN /\ Emit(<<Call(ERROR, "main", "Failed to copy the notebook: <e>")>>)
                /\ r' = RETURN_ERROR
                /\ UNCHANGED <<inv_files, fs_ops>>
           ELSE /\ inv_files' = inv_files \cup
                     {[dir |-> new_dir, file |-> new_filename,
                       src |-> selected_notebook]}
                /\ fs_ops' = Append(fs_ops,
                                    CopyOp(new_dir, new_filename, selected_notebook))
                /\ Emit(<<Call(INFO, "main", "Copied notebook to the new directory")>>)
                /\ r' = NoneReturned
        /\ UNCHANGED <<args, DEFAULT_VERBOSITY, DRYRUN, CONFIGURED_LEVEL,
                       pb_exists, pb_dirs, pb_files, playbooks, playbook_index,
                       raw_input, case_id, notebook_folder, new_dir_name,
                       new_dir, inv_exists, inv_dirs, retries, exit_code>>

\* a plausible slip: the result of main is not turned into the exit code
ExitCodeAlwaysZero(result) == 0

\* lines 404-417: every truthy result of main exits 1, a falsy one 0
ExitCodeOf(result) == IF result # 0 THEN 1 ELSE 0

ExitCalls(result) ==
    IF result # 0
    THEN IF result = RETURN_ERROR
         THEN <<Call(ERROR, "__main__", "Script execution failed. Exiting with error.")>>
         ELSE <<Call(ERROR, "__main__", "Script execution ended with an unknown error.")>>
    ELSE <<Call(INFO, "__main__", "Script execution completed successfully. Exiting normally.")>>

Exit ==
    /\ pc = "ret"
    /\ pc' = "exited"
    /\ Emit(ExitCalls(r))
    /\ exit_code' = ExitCodeOf(r)
    /\ UNCHANGED <<args, DEFAULT_VERBOSITY, DRYRUN, CONFIGURED_LEVEL, raised,
                   MainVars>>

\* nothing of a run has happened yet
Fresh ==
    /\ log = <<>>
    /\ stdout = <<>>
    /\ raised = ""
    /\ playbooks = <<>>
    /\ playbook_index = -1
    /\ raw_input = <<>>
    /\ new_dir_name = None
    /\ new_dir = None
    /\ fs_ops = <<>>
    /\ retries = 0
    /\ r = NoneReturned
    /\ exit_code = Running

\* no command line, an empty playbooks root, an empty investigations root
Plain ==
    /\ args = [flags |-> {}, dryrun |-> FALSE]
    /\ DEFAULT_VERBOSITY = "WARNING"
    /\ pb_exists = TRUE
    /\ pb_dirs = {<<>>}
    /\ pb_files = {}
    /\ inv_exists = TRUE
    /\ inv_dirs = {}
    /\ inv_files = {}

(***************************************************************************)
(* A run of the script.                                                    *)
(***************************************************************************)
\* the playbooks roots a run is started on
Trees ==
    { [exists |-> FALSE, dirs |-> {}, files |-> {}],
      [exists |-> TRUE, dirs |-> {<<>>}, files |-> {}],
      [exists |-> TRUE, dirs |-> {<<>>, <<N_git>>},
       files |-> {<<N_git, N_x_ipynb>>}],
      [exists |-> TRUE, dirs |-> {<<>>, <<N_a>>, <<N_git>>},
       files |-> {<<N_a, N_x_ipynb>>, <<N_git, N_x_ipynb>>, <<N_y_txt>>}],
      [exists |-> TRUE, dirs |-> {<<>>, <<N_bang>>},
       files |-> {<<N_x_ipynb>>, <<N_bang, N_x_ipynb>>}] }

\* the lines typed at the two prompts of a run
SelectLines == { <<>>, <<"1">>, <<" ", "2", " ">>, <<"0">>, <<"3">>, <<"a">> }
CaseLines == { <<>>, <<"4", "2">>, <<"#", "4", "2">>, <<"a", " ", "1">>,
               <<"a", "!">> }

FlagSets == {F \in SUBSET {FlagOrder[i] : i \in 1..Len(FlagOrder)} :
                Cardinality(F) <= MaxFlags}

Init ==
    /\ pc = "start"
    /\ Fresh
    /\ \E F \in FlagSets, d \in BOOLEAN : args = [flags |-> F, dryrun |-> d]
    /\ DEFAULT_VERBOSITY \in
         IF args.flags = {} THEN {"WARNING", "", "LOUD"} ELSE {"WARNING"}
    /\ DRYRUN = FALSE
    /\ CONFIGURED_LEVEL = NoLevel
    /\ \E t \in Trees :
         /\ pb_exists = t.exists
         /\ pb_dirs = t.dirs
         /\ pb_files = t.files
    /\ inv_exists \in BOOLEAN
    /\ inv_dirs = {}
    /\ inv_files = {}
    /\ case_id = None
    /\ notebook_folder = None

Next ==
    \/ Startup
    \/ Preflight
    \/ \E order \in IterOrders : Discover(order)
    \/ \E line \in SelectLines : SelectStep(line)
    \/ \E line \in CaseLines : CaseRefStep(line)
    \/ \E current_time \in Timestamps : CreateCheck(current_time)
    \/ \E os_ok \in BOOLEAN : Mkdir(os_ok)
    \/ OtherProcess
    \/ \E copy_ok \in BOOLEAN : CopyStep(copy_ok)
    \/ Exit

Spec == Init /\ [][Next]_vars

\* the lines a prompt is exercised with
PromptAlphabet == {"1", "a", "#", " ", "!"}
LongLines ==
    UNION {{Rep("1", n), Rep("a", n), <<"#">> \o Rep("1", n),
            <<" ">> \o Rep("a", n) \o <<" ">>, Rep("a", n - 1) \o <<"!">>}
           : n \in {CaseIdMaxLen, CaseIdMaxLen + 1}}
ForeignDigitLines ==
    { <<"U+0663">>, <<"#", "U+0663">>, <<"1", "U+0663">>, <<"U+0663", "a">>,
      <<" ", "U+0663", "\t">> }
PromptLines ==
    StringsUpTo(PromptAlphabet, MaxLineLen) \cup LongLines
        \cup ForeignDigitLines

CaseRefAnyLine == \E line \in PromptLines : CaseRefStep(line)

\* the case-reference loop of main, driven with scripted lines
InitCaseRef ==
    /\ pc = "caseref"
    /\ Fresh
    /\ Plain
    /\ DRYRUN = FALSE
    /\ CONFIGURED_LEVEL = INFO
    /\ case_id = None
    /\ notebook_folder = None

NextCaseRef == CaseRefAnyLine

SpecCaseRef == InitCaseRef /\ [][NextCaseRef]_vars

DigitString(s) == Len(s) >= 1 /\ \A i \in 1..Len(s) : s[i] \in DecimalDigits
AllowListed(s) == \A i \in 1..Len(s) : s[i] \in AllowedChars
PassMade == log # <<>>

C7_AcceptedTokenAtMost20 ==
    (PassMade /\ pc = "create") => Len(strip(raw_input)) <= 20

(***************************************************************************)
(* The logger driven through its class methods.                            *)
(***************************************************************************)
InitMSG ==
    /\ pc = "msg"
    /\ Fresh
    /\ Plain
    /\ DRYRUN = FALSE
    /\ CONFIGURED_LEVEL = NoLevel
    /\ case_id = None
    /\ notebook_folder = None

NextMSG ==
    \/ \E name \in LevelNames \cup {"LOUD"} : MSGsetLevelByName(name)
    \/ \E level \in Levels : MSGsetLevel(level)
    \/ \E level \in SILENT..(DEBUG + 1) : MSGlog(level)

SpecMSG == InitMSG /\ [][NextMSG]_vars

IsLogCall ==
    /\ pc = "msg"
    /\ Len(log') = Len(log) + 1
    /\ log'[Len(log')][1] # PRINT

(***************************************************************************)
(* C8: MSG.log(level, source, message) prints a line if and only if        *)
(* level <= the configured level, the configured level being WARNING when  *)
(* no level has ever been set (so under SILENT nothing tagged CRITICAL     *)
(* through DEBUG is printed).                                              *)
(***************************************************************************)
C8_LogPrintsIffAtMostConfigured ==
    [][IsLogCall =>
         ((Len(stdout') = Len(stdout) + 1)
            <=> log'[Len(log')][1] <=
                  (IF CONFIGURED_LEVEL = NoLevel THEN WARNING
                                              ELSE CONFIGURED_LEVEL))]_vars

(***************************************************************************)
(* Discovery driven on every playbooks tree of at most MaxNodes entries    *)
(* and depth MaxDepth: the tree is built entry by entry, then              *)
(* get_list_of_notebooks is called on it.                                  *)
(***************************************************************************)
NodeCount == Cardinality(pb_dirs) - 1 + Cardinality(pb_files)

AddDir(parent, name) ==
    /\ pc = "tree"
    /\ NodeCount < MaxNodes
    /\ Len(parent) + 1 < MaxDepth
    /\ Append(parent, name) \notin pb_dirs \cup pb_files
    /\ pb_dirs' = pb_dirs \cup {Append(parent, name)}
    /\ UNCHANGED <<pc, args, DEFAULT_VERBOSITY, DRYRUN, CONFIGURED_LEVEL, log,
                   stdout, raised, pb_exists, pb_files, playbooks,
                   playbook_index, raw_input, case_id, notebook_folder,
                   new_dir_name, new_dir, inv_exists, inv_dirs, inv_files,
                   fs_ops, retries, r, exit_code>>

AddFile(parent, name) ==
    /\ pc = "tree"
    /\ NodeCount < MaxNodes
    /\ Append(parent, name) \notin pb_dirs \cup pb_files
    /\ pb_files' = pb_files \cup {Append(parent, name)}
    /\ UNCHANGED <<pc, args, DEFAULT_VERBOSITY, DRYRUN, CONFIGURED_LEVEL, log,
                   stdout, raised, pb_exists, pb_dirs, playbooks,
                   playbook_index, raw_input, case_id, notebook_folder,
                   new_dir_name, new_dir, inv_exists, inv_dirs, inv_files,
                   fs_ops, retries, r, exit_code>>

DiscoverCall(order) ==
    /\ pc = "tree"
    /\ pc' = "discovered"
    /\ playbooks' = get_list_of_notebooks(pb_exists, pb_dirs, pb_files, order)
    /\ Emit(get_list_of_notebooks_calls(pb_exists, playbooks'))
    /\ UNCHANGED <<args, DEFAULT_VERBOSITY, DRYRUN, CONFIGURED_LEVEL, raised,
                   pb_exists, pb_dirs, pb_files, playbook_index, raw_input,
                   case_id, notebook_folder, new_dir_name, new_dir,
                   inv_exists, inv_dirs, inv_files, fs_ops, retries, r,
                   exit_code>>

InitDiscover ==
    /\ pc = "tree"
    /\ Fresh
    /\ Plain
    /\ DRYRUN = FALSE
    /\ CONFIGURED_LEVEL = WARNING
    /\ case_id = None
    /\ notebook_folder = None

NextDiscover ==
    \/ \E parent \in pb_dirs, name \in EntryNames : AddDir(parent, name)
    \/ \E parent \in pb_dirs, name \in EntryNames : AddFile(parent, name)
    \/ \E order \in IterOrders : DiscoverCall(order)

SpecDiscover == InitDiscover /\ [][NextDiscover]_vars

EndsWithIpynb(name) ==
    /\ Len(name) > 6
    /\ SubSeq(name, Len(name) - 5, Len(name)) = <<".", "i", "p", "y", "n", "b">>

IgnoredAncestor(path) ==
    \E k \in 1..(Len(path) - 1) : path[k] \in PLAYBOOK_IGNORE_DIRS

Returned == {playbooks[i] : i \in 1..Len(playbooks)}

(***************************************************************************)
(* C5: get_list_of_notebooks returns no template that has an ancestor      *)
(* directory below the root whose bare name is in the ignore set, at any   *)
(* depth, and returns every .ipynb file (a file named <stem>.ipynb with a  *)
(* non-empty stem) that has no such ancestor.                              *)
(***************************************************************************)
C5_DiscoverySkipsIgnoredOnly ==
    pc = "discovered" =>
      /\ \A p \in Returned : ~IgnoredAncestor(p)
      /\ \A f \in pb_files :
           (EndsWithIpynb(f[Len(f)]) /\ ~IgnoredAncestor(f)) => f \in Returned

\* one template is found two levels down while another, nested below an
\* ignored directory one level further up, is left out
C5_Witness ==
    /\ pc = "discovered"
    /\ <<N_a, N_git, N_x_ipynb>> \in pb_files
    /\ <<N_a, N_x_ipynb>> \in pb_files
    /\ Returned = {<<N_a, N_x_ipynb>>}

(***************************************************************************)
(* create_directory driven with every case reference and label of at most  *)
(* MaxArgLen characters, and with labels around the length limit.          *)
(***************************************************************************)
ArgAlphabet == {"a", "#", "!", "\n"}
LongLabels ==
    { Rep("a", DirNameMaxLen - 19), Rep("a", DirNameMaxLen - 18),
      Rep("a", DirNameMaxLen - 20) \o <<"\n">>,
      Rep("a", DirNameMaxLen - 19) \o <<"\n">> }
CaseArgs == {None} \cup StringsUpTo(ArgAlphabet, MaxArgLen)
LabelArgs == {None} \cup StringsUpTo(ArgAlphabet, MaxArgLen) \cup LongLabels

InitCreate ==
    /\ pc = "create"
    /\ Fresh
    /\ args = [flags |-> {}, dryrun |-> FALSE]
    /\ DEFAULT_VERBOSITY = "WARNING"
    /\ pb_exists = TRUE
    /\ pb_dirs = {<<>>}
    /\ pb_files = {}
    /\ inv_exists \in BOOLEAN
    /\ inv_dirs = {}
    /\ inv_files = {}
    /\ DRYRUN \in BOOLEAN
    /\ CONFIGURED_LEVEL = INFO
    /\ case_id \in CaseArgs
    /\ notebook_folder \in LabelArgs

NextCreate ==
    \/ \E current_time \in Timestamps : CreateCheck(current_time)
    \/ \E os_ok \in BOOLEAN : Mkdir(os_ok)
    \/ OtherProcess

SpecCreate == InitCreate /\ [][NextCreate]_vars

NameIsClean(name) == AllowListed(name) /\ Len(name) <= 75

(***************************************************************************)
(* C1: create_directory returns a path only if the composed name           *)
(* '<timestamp>[ <case_ref>] - <label or "New Investigation">' consists    *)
(* solely of allow-listed characters and is at most 75 characters long;    *)
(* in every other case it returns absent and creates no directory.         *)
(***************************************************************************)
C1_PathOnlyForCleanName ==
    pc = "returned" =>
      /\ new_dir # None => NameIsClean(new_dir)
      /\ (inv_exists /\ ~NameIsClean(new_dir_name)) =>
            (new_dir = None /\ fs_ops = <<>>)

(***************************************************************************)
(* Claims about a run of the script.                                       *)
(***************************************************************************)
Ended == pc = "exited"
MadeByRun(name) == \E i \in 1..Len(fs_ops) : fs_ops[i] = MkdirOp(name)

\* a directory of the composed name exists that this run did not make
ForeignTarget ==
    /\ new_dir_name # None
    /\ new_dir_name \in inv_dirs
    /\ ~MadeByRun(new_dir_name)

(***************************************************************************)
(* C2: a run never adopts a directory it did not create: when a directory  *)
(* with the composed name exists at the moment of creation (before         *)
(* create_directory is called, or appearing between its existence check    *)
(* and its mkdir), create_directory yields no path, no new directory is    *)
(* made, no file is copied into the existing directory and the run ends    *)
(* with an error.                                                          *)
(***************************************************************************)
C2_NeverAdoptsForeignDirectory ==
    /\ \A f \in inv_files : MadeByRun(f.dir)
    /\ (pc \in {"returned", "ret", "exited"} /\ ForeignTarget) =>
         /\ new_dir = None
         /\ fs_ops = <<>>
         /\ inv_files = {}
         /\ pc \in {"ret", "exited"} => r = RETURN_ERROR
         /\ pc = "exited" => exit_code = 1

\* the directory appeared between the existence check and the mkdir
C2_Witness ==
    /\ Ended
    /\ ForeignTarget
    /\ Logged("Failed to create directory: <e>")
    /\ exit_code = 1

(***************************************************************************)
(* C3: with --dryrun the run leaves the filesystem unchanged whatever is   *)
(* typed: create_directory creates no directory and main copies no file.   *)
(***************************************************************************)
C3_DryRunChangesNothing ==
    args.dryrun =>
      /\ fs_ops = <<>>
      /\ inv_files = {}
      /\ pc # "mkdir"
      /\ new_dir = None

C3_Witness ==
    /\ Ended
    /\ args.dryrun
    /\ Logged("DRYRUN: Would have created directory")
    /\ WasPrinted("Invalid input.")

(***************************************************************************)
(* C4: with --dryrun and valid inputs (existing investigations root,       *)
(* valid name, no collision) the run emits the normal success lines and    *)
(* the no-op result of create_directory is not treated as a creation       *)
(* failure: the run is not reported as failed.                             *)
(***************************************************************************)
C4_DryRunNotReportedAsFailed ==
    (Ended /\ args.dryrun /\ Logged("DRYRUN: Would have created directory")) =>
      /\ exit_code = 0
      /\ ~Logged("Failed to create directory for the new investigation")
      /\ Logged("Script execution completed successfully. Exiting normally.")

FailureKeys ==
    { "Playbooks directory does not exist or is empty",
      "No Jupyter notebooks found in the Playbooks directory",
      "[ERROR] Invalid logging verbosity level in configuration",
      "Failed to create directory: <e>",
      "Failed to create directory for the new investigation",
      "Failed to copy the notebook: <e>" }
FailureReported == \E key \in FailureKeys : Logged(key)

(***************************************************************************)
(* C9: the exit code is 1 exactly when a configuration, validation or I/O  *)
(* failure was reported (missing or empty template root, no templates,     *)
(* invalid verbosity name, directory not created, copy failed) and 0       *)
(* otherwise; malformed selection or case-reference lines alone, however   *)
(* often repeated, never cause exit code 1.  A failure counts as reported  *)
(* when the script makes the call that reports it.                         *)
(***************************************************************************)
C9_ExitCodeOneIffFailure ==
    Ended =>
      /\ exit_code \in {0, 1}
      /\ exit_code = 1 <=> FailureReported

\* both prompts rejected a line, and the run still exits 0
C9_Witness ==
    /\ Ended
    /\ exit_code = 0
    /\ Logged("Invalid input.")
    /\ Logged("Invalid input. Please enter a valid case ID")

SelectedTemplate == playbooks[playbook_index + 1]
FolderOfSelected ==
    IF Len(SelectedTemplate) > 1
    THEN SelectedTemplate[Len(SelectedTemplate) - 1]
    ELSE <<"P", "l", "a", "y", "b", "o", "o", "k", "s">>
ExpectedFile ==
    <<"i", "n", "v", "_">> \o SelectedTemplate[Len(SelectedTemplate)]
ExpectedNames ==
    { t \o (IF case_id = None THEN <<>> ELSE <<" ">> \o case_id)
        \o <<" ", "-", " ">> \o FolderOfSelected : t \in Timestamps }

(***************************************************************************)
(* C10: a successful run creates exactly one directory under the           *)
(* investigations root, named '<timestamp>[ <case_ref>] - <parent folder   *)
(* name of the selected template>', and copies exactly one file into it:   *)
(* the selected template under 'inv_' plus its file name; it creates or    *)
(* changes nothing else.                                                   *)
(***************************************************************************)
C10_OneDirectoryOneCopy ==
    (Ended /\ exit_code = 0) =>
      \E name \in ExpectedNames :
        /\ fs_ops = << MkdirOp(name),
                       CopyOp(name, ExpectedFile, SelectedTemplate) >>
        /\ name \in inv_dirs
        /\ inv_files = {[dir |-> name, file |-> ExpectedFile,
                         src |-> SelectedTemplate]}

C10_Witness ==
    /\ Ended
    /\ exit_code = 0
    /\ case_id = <<"#", "4", "2">>
    /\ SelectedTemplate = <<N_a, N_x_ipynb>>
    /\ Cardinality(inv_dirs) = 2

(***************************************************************************)
(* The selection loop of main, driven with scripted lines on discovered    *)
(* lists of one to three templates.                                        *)
(***************************************************************************)
SelectAlphabet == {"0", "1", "2", " ", "a"}
OddSelectLines ==
    { <<"U+0663">>, <<"\t", "2", "\t">>, <<"-", "1">>, <<"+", "1">>,
      <<"1", ".", "0">>, <<"#", "1">> }
SelectPromptLines ==
    StringsUpTo(SelectAlphabet, MaxLineLen) \cup OddSelectLines

DiscoveredLists ==
    { <<<<N_x_ipynb>>>>,
      <<<<N_x_ipynb>>, <<N_a, N_x_ipynb>>>>,
      <<<<N_x_ipynb>>, <<N_a, N_x_ipynb>>, <<N_bang, N_x_ipynb>>>> }

SelectAnyLine == \E line \in SelectPromptLines : SelectStep(line)

InitSelect ==
    /\ pc = "select"
    /\ log = <<>>
    /\ stdout = <<>>
    /\ raised = ""
    /\ playbooks \in DiscoveredLists
    /\ playbook_index = -1
    /\ raw_input = <<>>
    /\ new_dir_name = None
    /\ new_dir = None
    /\ fs_ops = <<>>
    /\ retries = 0
    /\ r = NoneReturned
    /\ exit_code = Running
    /\ args = [flags |-> {}, dryrun |-> FALSE]
    /\ DEFAULT_VERBOSITY = "WARNING"
    /\ pb_exists = TRUE
    /\ pb_dirs = {<<>>, <<N_a>>, <<N_bang>>}
    /\ pb_files = {playbooks[i] : i \in 1..Len(playbooks)}
    /\ inv_exists = TRUE
    /\ inv_dirs = {}
    /\ inv_files = {}
    /\ DRYRUN = FALSE
    /\ CONFIGURED_LEVEL = INFO
    /\ case_id = None
    /\ notebook_folder = None

NextSelect == SelectAnyLine

SpecSelect == InitSelect /\ [][NextSelect]_vars

\* the number a string of decimal digits denotes, most significant first
RECURSIVE DecimalValue(_)
DecimalValue(s) ==
    IF s = <<>> THEN 0
    ELSE LET d == CHOOSE k \in 0..9 : DigitValue(Head(s)) = k
             RECURSIVE Pow10(_)
             Pow10(n) == IF n = 0 THEN 1 ELSE 10 * Pow10(n - 1)
         IN  d * Pow10(Len(s) - 1) + DecimalValue(Tail(s))

(***************************************************************************)
(* C11: the selection loop ends only on a line that, trimmed, is a         *)
(* decimal integer n with 1 <= n <= number of discovered templates, and    *)
(* the template used afterwards is the n-th of the displayed 1-indexed     *)
(* list; every other line (empty, non-numeric, 0, above the list length)   *)
(* leaves the loop prompting with nothing selected.                        *)
(***************************************************************************)
C11_SelectionOnlyOnValidIndex ==
    (pc \in {"select", "caseref"} /\ PassMade) =>
      LET t == strip(raw_input)
          valid == /\ DigitString(t)
                   /\ DecimalValue(t) \in 1..Len(playbooks)
      IN  IF valid
          THEN /\ pc = "caseref"
               /\ playbooks[playbook_index + 1] = playbooks[DecimalValue(t)]
               /\ notebook_folder =
                    (IF Len(playbooks[DecimalValue(t)]) > 1
                     THEN playbooks[DecimalValue(t)][Len(playbooks[DecimalValue(t)]) - 1]
                     ELSE PLAYBOOKS_DIR_name)
          ELSE /\ pc = "select"
               /\ retries > 0
               /\ notebook_folder = None

\* after a 0 was refused, " 2 " selects the second of three templates
C11_Witness ==
    /\ pc = "caseref"
    /\ WasPrinted("Invalid input.")
    /\ raw_input = <<" ", "2", " ">>
    /\ Len(playbooks) = 3
    /\ playbook_index = 1
    /\ notebook_folder = N_a

\* the positions a run may move to from each position: preflight ("main"),
\* discover, select, case reference, create directory ("create", "mkdir"),
\* copy ("returned"), the return of main ("ret") and the exit
StepsAfter(position) ==
    CASE position = "start"    -> {"main", "exited"}
      [] position = "main"     -> {"discover", "ret"}
      [] position = "discover" -> {"select", "ret"}
      [] position = "select"   -> {"select", "caseref"}
      [] position = "caseref"  -> {"caseref", "create"}
      [] position = "create"   -> {"create", "mkdir", "returned"}
      [] position = "mkdir"    -> {"mkdir", "returned"}
      [] position = "returned" -> {"ret"}
      [] position = "ret"      -> {"exited"}
      [] OTHER                 -> {}

\* the failures of preflight, discovery, directory creation and copy
StepFailureKeys ==
    { "Playbooks directory does not exist or is empty",
      "No Jupyter notebooks found in the Playbooks directory",
      "Failed to create directory: <e>",
      "Failed to create directory for the new investigation",
      "Failed to copy the notebook: <e>" }

\* the calls that only a later step of main makes
LaterStepKeys(position) ==
    CASE position = "main" ->
           {"Found Jupyter notebooks", "Selected notebook", "Invalid input.",
            "New directory name", "Created directory",
            "Copied notebook to the new directory"}
      [] position = "discover" ->
           {"Selected notebook", "Invalid input.", "New directory name",
            "Created directory", "Copied notebook to the new directory"}
      [] position \in {"select", "caseref"} ->
           {"New directory name", "Created directory",
            "Copied notebook to the new directory"}
      [] position \in {"create", "mkdir"} ->
           {"Copied notebook to the new directory"}
      [] OTHER -> {}

\* a step is taken only from its place in the order, a failure of a step
\* makes main return at once, and after the return nothing but the exit
\* happens
OrderedStep ==
    /\ pc' \in StepsAfter(pc)
    /\ fs_ops' # fs_ops => pc \in {"mkdir", "returned"}
    /\ (\E i \in (Len(log) + 1)..Len(log') : log'[i][3] \in StepFailureKeys) =>
         /\ pc' = "ret"
         /\ r' = RETURN_ERROR
         /\ log'[Len(log')][3] \in StepFailureKeys
         /\ fs_ops' = fs_ops /\ inv_files' = inv_files
    /\ pc = "ret" =>
         /\ fs_ops' = fs_ops /\ inv_files' = inv_files /\ inv_dirs' = inv_dirs
         /\ Len(log') = Len(log) + 1

\* what a run has done at each position, and what a failed run leaves
OrderedState ==
    /\ \A key \in LaterStepKeys(pc) : ~Logged(key)
    /\ \A i \in 1..Len(log) :
         log[i][3] \in StepFailureKeys =>
           /\ pc \in {"ret", "exited"}
           /\ r = RETURN_ERROR
           /\ \/ i = Len(log)
              \/ /\ i = Len(log) - 1
                 /\ pc = "exited"
                 /\ log[Len(log)][3] = "Script execution failed. Exiting with error."
    /\ \/ fs_ops = <<>> /\ inv_files = {}
       \/ /\ fs_ops = <<MkdirOp(new_dir)>>
          /\ inv_files = {}
          /\ pc \in {"returned", "ret", "exited"}
       \/ /\ Len(fs_ops) = 2
          /\ fs_ops[1] = MkdirOp(new_dir)
          /\ fs_ops[2].op = "copy" /\ fs_ops[2].dir = new_dir
          /\ pc \in {"ret", "exited"}
          /\ r = NoneReturned
    /\ (pc \in {"ret", "exited"} /\ r = RETURN_ERROR) =>
         /\ inv_files = {}
         /\ \/ fs_ops = <<>>
            \/ /\ fs_ops = <<MkdirOp(new_dir)>>
               /\ log[IF pc = "ret" THEN Len(log) ELSE Len(log) - 1][3]
                    = "Failed to copy the notebook: <e>"

(***************************************************************************)
(* C12: the steps of main happen only in the order preflight, discover,    *)
(* select, case reference, create directory, copy; a failure of preflight, *)
(* discovery, directory creation or copy is terminal, no later step is     *)
(* executed after it; the only partial filesystem state a failed run can   *)
(* leave behind is a directory created in this run into which the copy     *)
(* failed.                                                                 *)
(***************************************************************************)
C12_OrderedStepsTerminalFailures ==
    []OrderedState /\ [][OrderedStep]_vars

\* a failed run that leaves its own, empty directory: the copy failed
C12_Witness ==
    /\ Ended
    /\ exit_code = 1
    /\ fs_ops = <<MkdirOp(new_dir)>>
    /\ new_dir \in inv_dirs
    /\ inv_files = {}
    /\ Logged("Failed to copy the notebook: <e>")

=============================================================================
